---- MODULE Spec2Model ----
(***************************************************************************)
(* Financial health scoring engine of finflowpro: the useFinancialScore    *)
(* hook (hooks/useFinancialScore) over the transaction list kept by        *)
(* useSupabaseTransactions.                                                *)
(*                                                                         *)
(* Numbers.  JavaScript numbers are modelled as exact rationals            *)
(* [n |-> numerator, d |-> denominator] in lowest terms, amounts are whole *)
(* numbers.  A division by zero yields d = 0 (n = 1, -1: +/-Infinity,      *)
(* n = 0: NaN) and compares the way IEEE-754 does.                         *)
(*                                                                         *)
(* Time.  `now` is the instant new Date() returns, kept in UTC as          *)
(* [ym |-> 12*year + month0, d |-> day of month, h |-> hour]; `tz` is the  *)
(* host's UTC offset in hours.  toISOString() reads UTC fields, while      *)
(* getFullYear/getMonth/getDate and new Date(y, m, d) work on local ones.  *)
(*                                                                         *)
(* Dates of transactions are the strings 'YYYY-MM-DD', modelled as         *)
(* [ym, d]; substring(0, 7) is the ym field, substring(0, 10) the pair.    *)
(***************************************************************************)
EXTENDS Integers, Sequences, FiniteSets, TLC

VARIABLES
    transactions,   \* useSupabaseTransactions: the transactions state (a list)
    now,            \* the wall clock, in UTC
    tz,             \* UTC offset of the host, in hours
    memo,           \* useMemo cell of useFinancialScore: NoMemo or the cached computation
    heap            \* number of pillar arrays allocated so far

vars == <<transactions, now, tz, memo, heap>>

---------------------------------------------------------------------------
(* Bounds *)

MaxTxs == 2        \* longest list the mutations build
MaxLoaded == 3     \* longest list fetchTransactions loads
MaxAllocs == 3     \* computations of the score in one behaviour
MaxDays == 4       \* longest list of the month of daily expenses

---------------------------------------------------------------------------
(* Exact rational arithmetic standing for JavaScript numbers *)

Abs(x) == IF x < 0 THEN -x ELSE x

Sign(x) == IF x < 0 THEN -1 ELSE IF x = 0 THEN 0 ELSE 1

RECURSIVE GCD(_, _)
GCD(a, b) == IF b = 0 THEN a ELSE GCD(b, a % b)

Rat(n, d) ==
    IF d = 0 THEN [n |-> Sign(n), d |-> 0]
    ELSE LET g == GCD(Abs(n), Abs(d))
             s == IF d < 0 THEN -1 ELSE 1
         IN  [n |-> (s * n) \div g, d |-> (s * d) \div g]

R(i) == [n |-> i, d |-> 1]

RAdd(a, b) == Rat(a.n * b.d + b.n * a.d, a.d * b.d)
RSub(a, b) == Rat(a.n * b.d - b.n * a.d, a.d * b.d)
RMul(a, b) == Rat(a.n * b.n, a.d * b.d)
RDiv(a, b) == Rat(a.n * b.d, a.d * b.n)
RLt(a, b) == a.n * b.d < b.n * a.d
RGt(a, b) == RLt(b, a)
RGe(a, b) == a.n * b.d >= b.n * a.d /\ ~(a.n = 0 /\ a.d = 0) /\ ~(b.n = 0 /\ b.d = 0)
RMin(a, b) == IF RLt(b, a) THEN b ELSE a
RMax(a, b) == IF RGt(b, a) THEN b ELSE a
IsInt(a) == a.d = 1
IsFinite(a) == a.d # 0

\* floor of a finite rational
RFloor(a) == a.n \div a.d

\* Math.round: the nearest integer, a tie goes up
MathRound(a) == IF a.d = 0 THEN a ELSE R(RFloor(RAdd(a, Rat(1, 2))))

Pow10(f) == IF f = 0 THEN 1 ELSE IF f = 1 THEN 10 ELSE 100

\* Number.prototype.toFixed(f): the decimal with f digits nearest to a, a tie
\* goes away from zero; the result is the digit string, kept as sign and the
\* integer made of all its digits (so "2.5" with f = 1 is 25)
ToFixed(a, f) ==
    LET m == RMul([n |-> Abs(a.n), d |-> a.d], R(Pow10(f)))
    IN  IF a.d = 0 THEN [neg |-> a.n < 0, digits |-> -1, frac |-> f]
        ELSE [neg |-> a.n < 0, digits |-> RFloor(RAdd(m, Rat(1, 2))), frac |-> f]

---------------------------------------------------------------------------
(* Calendar *)

IsLeap(y) == (y % 4 = 0 /\ y % 100 # 0) \/ y % 400 = 0

DaysIn(ym) ==
    LET m == ym % 12
        y == ym \div 12
    IN  IF m = 1 THEN (IF IsLeap(y) THEN 29 ELSE 28)
        ELSE IF m \in {3, 5, 8, 10} THEN 30 ELSE 31

\* an instant moved by k hours, -24 < k < 24
ShiftHours(t, k) ==
    LET h2 == t.h + k
    IN  IF h2 < 0
        THEN IF t.d = 1
             THEN [ym |-> t.ym - 1, d |-> DaysIn(t.ym - 1), h |-> h2 + 24]
             ELSE [ym |-> t.ym, d |-> t.d - 1, h |-> h2 + 24]
        ELSE IF h2 >= 24
        THEN IF t.d = DaysIn(t.ym)
             THEN [ym |-> t.ym + 1, d |-> 1, h |-> h2 - 24]
             ELSE [ym |-> t.ym, d |-> t.d + 1, h |-> h2 - 24]
        ELSE [ym |-> t.ym, d |-> t.d, h |-> h2]

\* the local fields of an instant: getFullYear()/getMonth() as ym, getDate() as d
LocalFields(t, off) == ShiftHours(t, off)

\* new Date(year, month, day): local midnight of that day, as an instant;
\* day 0 is the last day of the month before
DateCtor(ym, day, off) ==
    LET loc == IF day = 0 THEN [ym |-> ym - 1, d |-> DaysIn(ym - 1), h |-> 0]
               ELSE [ym |-> ym, d |-> day, h |-> 0]
    IN  ShiftHours(loc, -off)

\* date.toISOString().substring(0, 7)
IsoMonth(t) == t.ym

\* string.substring(0, 7) and substring(0, 10) of a date string
MonthOf(date) == date.ym
DayOf(date) == <<date.ym, date.d>>

---------------------------------------------------------------------------
(* Strings: a category name is its sequence of characters *)

UpperChars == <<"A", "B", "C", "D", "E", "F", "G", "H", "I", "J", "K", "L", "M",
                "N", "O", "P", "Q", "R", "S", "T", "U", "V", "W", "X", "Y", "Z">>
LowerChars == <<"a", "b", "c", "d", "e", "f", "g", "h", "i", "j", "k", "l", "m",
                "n", "o", "p", "q", "r", "s", "t", "u", "v", "w", "x", "y", "z">>

LowerChar(c) ==
    IF \E i \in 1..26 : UpperChars[i] = c
    THEN LowerChars[CHOOSE i \in 1..26 : UpperChars[i] = c]
    ELSE c

\* String.prototype.toLowerCase
toLowerCase(s) == [i \in 1..Len(s) |-> LowerChar(s[i])]

\* String.prototype.includes
includes(s, k) ==
    \E i \in 1..(Len(s) - Len(k) + 1) : SubSeq(s, i, i + Len(k) - 1) = k

IMPULSE_KEYWORDS ==
    << <<"l", "a", "z", "e", "r">>,
       <<"e", "n", "t", "r", "e", "t", "e", "n", "i", "m", "e", "n", "t", "o">>,
       <<"o", "u", "t", "r", "o", "s">>,
       <<"i", "m", "p", "u", "l", "s", "o">>,
       <<"c", "o", "m", "p", "r", "a", "s">>,
       <<"s", "h", "o", "p", "p", "i", "n", "g">> >>

\* the keywords looked for in the name as written, toLowerCase() left out
isImpulseCategory_CaseSensitive(category) ==
    \E i \in 1..Len(IMPULSE_KEYWORDS) : includes(category, IMPULSE_KEYWORDS[i])

isImpulseCategory(category) ==
    LET lower == toLowerCase(category)
    IN  \E i \in 1..Len(IMPULSE_KEYWORDS) : includes(lower, IMPULSE_KEYWORDS[i])

---------------------------------------------------------------------------
(* List helpers standing for Array.prototype.filter / map / reduce *)

RECURSIVE SumAmount(_)
SumAmount(s) == IF s = <<>> THEN 0 ELSE Head(s).amount + SumAmount(Tail(s))

IsIncome(t) == t.type = "income"
IsExpense(t) == t.type = "expense"
IsImpulseExpense(t) == t.type = "expense" /\ isImpulseCategory(t.category)

\* new Set(list.map(t => t.date.substring(0, 10)))
DaySet(s) == {DayOf(s[i].date) : i \in 1..Len(s)}

\* a filter that compares years only: substring(0, 4)
InMonth_SameYear(txs, month) ==
    SelectSeq(txs, LAMBDA t : MonthOf(t.date) \div 12 = month \div 12)

\* transactions.filter(t => t.date.substring(0, 7) === month)
InMonth(txs, month) == SelectSeq(txs, LAMBDA t : MonthOf(t.date) = month)

---------------------------------------------------------------------------
(* useSupabaseTransactions.getMonthlyStats *)

\* the totals taken over the whole list, the month filter left out
getMonthlyStats_AllTime(txs, month) ==
    LET totalIncome == SumAmount(SelectSeq(txs, IsIncome))
        totalExpense == SumAmount(SelectSeq(txs, IsExpense))
        balance == totalIncome - totalExpense
        savingsRate == IF totalIncome > 0
                       THEN RMul(RDiv(R(balance), R(totalIncome)), R(100))
                       ELSE R(0)
    IN  [totalIncome |-> totalIncome, totalExpense |-> totalExpense,
         balance |-> balance, savingsRate |-> savingsRate]

getMonthlyStats(txs, month) ==
    LET monthTransactions == InMonth(txs, month)
        totalIncome == SumAmount(SelectSeq(monthTransactions, IsIncome))
        totalExpense == SumAmount(SelectSeq(monthTransactions, IsExpense))
        balance == totalIncome - totalExpense
        savingsRate == IF totalIncome > 0
                       THEN RMul(RDiv(R(balance), R(totalIncome)), R(100))
                       ELSE R(0)
    IN  [totalIncome |-> totalIncome, totalExpense |-> totalExpense,
         balance |-> balance, savingsRate |-> savingsRate]

---------------------------------------------------------------------------
(* useFinancialScore: helpers *)

\* breakpoints compared with > instead of >=
getStatus_Strict(score) ==
    IF RGt(score, R(80)) THEN "Excelente"
    ELSE IF RGt(score, R(60)) THEN "Saudavel"
    ELSE IF RGt(score, R(40)) THEN "Atencao"
    ELSE "Critico"

getStatus(score) ==
    IF RGe(score, R(80)) THEN "Excelente"
    ELSE IF RGe(score, R(60)) THEN "Saudavel"
    ELSE IF RGe(score, R(40)) THEN "Atencao"
    ELSE "Critico"

\* clamp(value, min = 0, max = 100)
clamp(value) == RMin(R(100), RMax(R(0), value))

\* a template string with the values interpolated into it; Text("", <<>>) is ''
Text(tpl, args) == [tpl |-> tpl, args |-> args]

\* a placeholder pillar that keeps a leftover explanation
EmptyPillar_StaleHow(id, name, icon, weight) ==
    [id |-> id, name |-> name, score |-> R(0), status |-> "Critico",
     icon |-> icon, weight |-> weight,
     phrase |-> "Registre transacoes para calcular.",
     details |-> [how |-> Text(id, <<>>), improve |-> Text("", <<>>),
                  impact |-> Text("", <<>>)]]

EmptyPillar(id, name, icon, weight) ==
    [id |-> id, name |-> name, score |-> R(0), status |-> "Critico",
     icon |-> icon, weight |-> weight,
     phrase |-> "Registre transacoes para calcular.",
     details |-> [how |-> Text("", <<>>), improve |-> Text("", <<>>),
                  impact |-> Text("", <<>>)]]

buildEmptyPillars ==
    << EmptyPillar("impulso", "Controle de Impulso", "Zap", 25),
       EmptyPillar("consistencia", "Consistencia", "CalendarCheck", 20),
       EmptyPillar("reserva", "Reserva", "Shield", 20),
       EmptyPillar("risco", "Risco Financeiro", "AlertTriangle", 20),
       EmptyPillar("crescimento", "Crescimento", "TrendingUp", 15) >>

---------------------------------------------------------------------------
(* useFinancialScore: the pillar formulas *)

\* the quotient without its guard
ImpulsePercent_Unguarded(totalImpulse, totalExpense) ==
    RDiv(R(totalImpulse), R(totalExpense))

\* impulsePercent and prevImpulsePercent
ImpulsePercent(totalImpulse, totalExpense) ==
    IF totalExpense > 0 THEN RDiv(R(totalImpulse), R(totalExpense)) ELSE R(0)

\* breakpoints compared with >= instead of >
ImpulseBand_Inclusive(p) ==
    IF RGe(p, Rat(4, 10)) THEN R(20)
    ELSE IF RGe(p, Rat(3, 10)) THEN R(40)
    ELSE IF RGe(p, Rat(2, 10)) THEN R(60)
    ELSE IF RGe(p, Rat(1, 10)) THEN R(80)
    ELSE R(100)

\* the if-chain on impulsePercent, and the same chain on prevImpulsePercent2
ImpulseBand(p) ==
    IF RGt(p, Rat(4, 10)) THEN R(20)
    ELSE IF RGt(p, Rat(3, 10)) THEN R(40)
    ELSE IF RGt(p, Rat(2, 10)) THEN R(60)
    ELSE IF RGt(p, Rat(1, 10)) THEN R(80)
    ELSE R(100)

\* the bonus given also for a percent equal to the previous month's
ImpulseBonus_Inclusive(score, p, prevP) ==
    IF RGe(prevP, p) THEN clamp(RAdd(score, R(5))) ELSE score

\* the bonus given for a percent above the previous month's
ImpulseBonus_Reversed(score, p, prevP) ==
    IF RGt(p, prevP) THEN clamp(RAdd(score, R(5))) ELSE score

\* Bonus: reduced impulse % vs prev month
ImpulseBonus(score, p, prevP) ==
    IF RLt(p, prevP) THEN clamp(RAdd(score, R(5))) ELSE score

\* impulseScore as it stands after the if-chain and the bonus
ImpulseScore(p, prevP) == ImpulseBonus(ImpulseBand(p), p, prevP)

\* the ratio itself, the factor 100 left out
ConsistencyBase_NoPercent(uniqueDays, daysElapsed) ==
    RDiv(R(uniqueDays), R(daysElapsed))

ConsistencyBase(uniqueDays, daysElapsed) ==
    RMul(RDiv(R(uniqueDays), R(daysElapsed)), R(100))

\* dailyAmounts: expense total per day, for the days that have an expense
DailyAmounts(currentMonthTxs) ==
    LET exp == SelectSeq(currentMonthTxs, IsExpense)
    IN  [day \in DaySet(exp) |->
            SumAmount(SelectSeq(exp, LAMBDA t : DayOf(t.date) = day))]

RECURSIVE SumOver(_, _)
SumOver(f, S) ==
    IF S = {} THEN 0
    ELSE LET x == CHOOSE y \in S : TRUE IN f[x] + SumOver(f, S \ {x})

AvgDaily(dailyAmounts) ==
    LET days == DOMAIN dailyAmounts
    IN  IF Cardinality(days) > 0
        THEN RDiv(R(SumOver(dailyAmounts, days)), R(Cardinality(days)))
        ELSE R(0)

\* a spike taken from twice the daily average on
HasSpike_Double(dailyAmounts) ==
    LET avgDaily == AvgDaily(dailyAmounts)
    IN  \E day \in DOMAIN dailyAmounts :
            RGt(R(dailyAmounts[day]), RMul(avgDaily, R(2)))

HasSpike(dailyAmounts) ==
    LET avgDaily == AvgDaily(dailyAmounts)
    IN  \E day \in DOMAIN dailyAmounts :
            RGt(R(dailyAmounts[day]), RMul(avgDaily, R(3)))

ConsistencyScore(consistencyBase, hasSpike) ==
    LET base == clamp(consistencyBase)
    IN  IF hasSpike THEN clamp(RSub(base, R(10))) ELSE base

ReserveMonths(reserveBalance, avgMonthlyExpense) ==
    IF RGt(avgMonthlyExpense, R(0))
    THEN RDiv(R(reserveBalance), avgMonthlyExpense)
    ELSE R(0)

ReserveBand(reserveMonths) ==
    IF RLt(reserveMonths, Rat(1, 2)) THEN R(20)
    ELSE IF RLt(reserveMonths, R(1)) THEN R(40)
    ELSE IF RLt(reserveMonths, R(2)) THEN R(70)
    ELSE IF RLt(reserveMonths, R(3)) THEN R(90)
    ELSE R(100)

\* a month without income counted as committing nothing
Commitment_ZeroFallback(stats) ==
    IF stats.totalIncome > 0
    THEN RDiv(R(stats.totalExpense), R(stats.totalIncome))
    ELSE R(0)

\* commitment and prevCommitment
Commitment(stats) ==
    IF stats.totalIncome > 0
    THEN RDiv(R(stats.totalExpense), R(stats.totalIncome))
    ELSE R(1)

\* the first test taken as commitment >= 1.0
RiskBand_Inclusive(commitment) ==
    IF RGe(commitment, R(1)) THEN R(20)
    ELSE IF RGt(commitment, Rat(9, 10)) THEN R(40)
    ELSE IF RGt(commitment, Rat(7, 10)) THEN R(60)
    ELSE IF RGt(commitment, Rat(5, 10)) THEN R(80)
    ELSE R(100)

\* the if-chain on commitment, and the same chain on prevCommitment
RiskBand(commitment) ==
    IF RGt(commitment, R(1)) THEN R(20)
    ELSE IF RGt(commitment, Rat(9, 10)) THEN R(40)
    ELSE IF RGt(commitment, Rat(7, 10)) THEN R(60)
    ELSE IF RGt(commitment, Rat(5, 10)) THEN R(80)
    ELSE R(100)

\* [..four comparisons..].filter(Boolean).length
CountTrue(flags) == Cardinality({i \in 1..Len(flags) : flags[i]})

\* no improvement taken to the fallback value
GrowthBand_ZeroFallback(improved) ==
    IF improved >= 3 THEN R(90)
    ELSE IF improved >= 1 THEN R(75)
    ELSE R(40)

GrowthBand(improved) ==
    IF improved >= 3 THEN R(90)
    ELSE IF improved >= 1 THEN R(75)
    ELSE IF improved = 0 THEN R(65)
    ELSE R(40)

\* first month: treat as improving
GrowthScore(improved, prevCount) ==
    IF prevCount = 0 THEN R(75) ELSE GrowthBand(improved)

\* the weights of risk and growth swapped: 0.15 and 0.20
Overall_Weights(impulseScore, consistencyScore, reserveScore, riskScore, growthScore) ==
    MathRound(RAdd(RAdd(RAdd(RAdd(RMul(impulseScore, Rat(25, 100)),
                                  RMul(consistencyScore, Rat(20, 100))),
                             RMul(reserveScore, Rat(20, 100))),
                        RMul(riskScore, Rat(15, 100))),
                   RMul(growthScore, Rat(20, 100))))

\* Math.round(impulse*0.25 + consistency*0.20 + reserve*0.20 + risk*0.20 + growth*0.15)
Overall(impulseScore, consistencyScore, reserveScore, riskScore, growthScore) ==
    MathRound(RAdd(RAdd(RAdd(RAdd(RMul(impulseScore, Rat(25, 100)),
                                  RMul(consistencyScore, Rat(20, 100))),
                             RMul(reserveScore, Rat(20, 100))),
                        RMul(riskScore, Rat(20, 100))),
                   RMul(growthScore, Rat(15, 100))))

OverallPhrase(overall) ==
    IF RGe(overall, R(80)) THEN "Sua saude financeira esta excelente! Continue assim."
    ELSE IF RGe(overall, R(60))
    THEN "Voce esta no caminho certo. Pequenos ajustes farao grande diferenca."
    ELSE IF RGe(overall, R(40)) THEN "Atencao necessaria. Revise seus habitos financeiros."
    ELSE "Situacao critica. Agir agora pode mudar seu cenario rapidamente."

\* the three-way phrase of a pillar: >= 80, >= mid, else
PillarPhrase(score, mid, high, middle, low) ==
    IF RGe(score, R(80)) THEN high ELSE IF RGe(score, R(mid)) THEN middle ELSE low

---------------------------------------------------------------------------
(* useFinancialScore: the body of the useMemo callback.                   *)
(* The result is the report (value) together with what the computation    *)
(* did on the way: the month keys it passed to getMonthlyStats, in call   *)
(* order (statsCalls), and the values of its local constants (facts).     *)

\* the aggregates fetched for the current and previous month ahead of the
\* no-data test
statsCallsOf_Eager(hasData, currentMonth, prevMonth, last3Months) ==
    IF ~hasData THEN <<currentMonth, prevMonth>>
    ELSE <<currentMonth, prevMonth>> \o last3Months

\* the month keys passed to getMonthlyStats, in call order: none before the
\* early return, then currentStats, prevStats and the three of the window
statsCallsOf(hasData, currentMonth, prevMonth, last3Months) ==
    IF ~hasData THEN <<>>
    ELSE <<currentMonth, prevMonth>> \o last3Months

NoDataReport ==
    [overall |-> R(0), status |-> "Critico",
     phrase |-> "Registre suas transacoes para desbloquear seu score completo.",
     hasData |-> FALSE, pillars |-> buildEmptyPillars]

Pillar(id, name, score, icon, weight, phrase, how, improve, impact) ==
    [id |-> id, name |-> name, score |-> score, status |-> getStatus(score),
     icon |-> icon, weight |-> weight, phrase |-> phrase,
     details |-> [how |-> how, improve |-> improve, impact |-> impact]]

computeScore(txs, t, off) ==
    LET loc == LocalFields(t, off)
        currentMonth == IsoMonth(t)
        prevDate == DateCtor(loc.ym - 1, 1, off)
        prevMonth == IsoMonth(prevDate)
        currentMonthTxs == InMonth(txs, currentMonth)
        prevMonthTxs == InMonth(txs, prevMonth)
        hasData == Len(currentMonthTxs) > 0
        currentStats == getMonthlyStats(txs, currentMonth)
        prevStats == getMonthlyStats(txs, prevMonth)
        \* A) Controle de Impulso
        totalExpense == currentStats.totalExpense
        totalImpulse == SumAmount(SelectSeq(currentMonthTxs, IsImpulseExpense))
        impulsePercent == ImpulsePercent(totalImpulse, totalExpense)
        impulseBase == ImpulseBand(impulsePercent)
        prevImpulse == SumAmount(SelectSeq(prevMonthTxs, IsImpulseExpense))
        prevImpulsePercent == ImpulsePercent(prevImpulse, prevStats.totalExpense)
        impulseScore == ImpulseScore(impulsePercent, prevImpulsePercent)
        \* B) Consistencia
        daysInMonth == LocalFields(DateCtor(loc.ym + 1, 0, off), off).d
        daysElapsed == IF loc.d < daysInMonth THEN loc.d ELSE daysInMonth
        uniqueDays == Cardinality(DaySet(currentMonthTxs))
        consistencyBase == ConsistencyBase(uniqueDays, daysElapsed)
        dailyAmounts == DailyAmounts(currentMonthTxs)
        avgDaily == AvgDaily(dailyAmounts)
        hasSpike == HasSpike(dailyAmounts)
        consistencyScore == ConsistencyScore(consistencyBase, hasSpike)
        \* C) Reserva
        allTimeIncome == SumAmount(SelectSeq(txs, IsIncome))
        allTimeExpense == SumAmount(SelectSeq(txs, IsExpense))
        reserveBalance == allTimeIncome - allTimeExpense
        last3Months == [k \in 1..3 |-> IsoMonth(DateCtor(loc.ym + (k - 3), 1, off))]
        sum3 == getMonthlyStats(txs, last3Months[1]).totalExpense
                    + getMonthlyStats(txs, last3Months[2]).totalExpense
                    + getMonthlyStats(txs, last3Months[3]).totalExpense
        avgMonthlyExpense == RDiv(R(sum3), R(3))
        reserveMonths == ReserveMonths(reserveBalance, avgMonthlyExpense)
        reserveScore == ReserveBand(reserveMonths)
        \* D) Risco Financeiro
        commitment == Commitment(currentStats)
        riskScore == RiskBand(commitment)
        \* E) Crescimento
        prevImpulsePercent2 == ImpulsePercent(prevImpulse, prevStats.totalExpense)
        prevImpulseScore2 == ImpulseBand(prevImpulsePercent2)
        prevCommitment == Commitment(prevStats)
        prevRiskScore == RiskBand(prevCommitment)
        prevUniqueDays == Cardinality(DaySet(prevMonthTxs))
        comparisons ==
            << RGt(impulseScore, prevImpulseScore2),
               RGt(RDiv(R(uniqueDays), R(daysElapsed)), RDiv(R(prevUniqueDays), R(28))),
               RGe(reserveScore, R(70)),
               RGt(riskScore, prevRiskScore) >>
        improved == CountTrue(comparisons)
        growthScore == GrowthScore(improved, Len(prevMonthTxs))
        \* Overall Score
        overall == Overall(impulseScore, consistencyScore, reserveScore,
                           riskScore, growthScore)
        pillars ==
            << Pillar("impulso", "Controle de Impulso", impulseScore, "Zap", 25,
                      PillarPhrase(impulseScore, 60,
                          "Voce esta controlando bem seus impulsos.",
                          "Seus gastos por impulso estao moderados.",
                          "Seus gastos por impulso estao elevados."),
                      Text("impulso.how", <<ToFixed(RMul(impulsePercent, R(100)), 0)>>),
                      Text("impulso.improve", <<>>),
                      Text("impulso.impact", <<getStatus(impulseScore)>>)),
               Pillar("consistencia", "Consistencia", consistencyScore,
                      "CalendarCheck", 20,
                      PillarPhrase(consistencyScore, 60,
                          "Voce mantem registro disciplinado.",
                          "Seu registro esta regular, mas pode melhorar.",
                          "Registrar diariamente melhora sua precisao financeira."),
                      Text("consistencia.how",
                           <<uniqueDays, daysElapsed, ToFixed(consistencyBase, 0)>>),
                      Text("consistencia.improve", <<>>),
                      Text("consistencia.impact", <<>>)),
               Pillar("reserva", "Reserva", reserveScore, "Shield", 20,
                      PillarPhrase(reserveScore, 60,
                          "Voce tem protecao financeira solida.",
                          "Sua reserva esta crescendo.",
                          "Sua reserva esta vulneravel."),
                      Text("reserva.how", <<ToFixed(reserveMonths, 1)>>),
                      Text("reserva.improve", <<>>),
                      Text("reserva.impact", <<>>)),
               Pillar("risco", "Risco Financeiro", riskScore, "AlertTriangle", 20,
                      PillarPhrase(riskScore, 60,
                          "Sua estrutura financeira esta equilibrada.",
                          "Seu comprometimento esta moderado.",
                          "Seu comprometimento de renda esta elevado."),
                      Text("risco.how", <<ToFixed(RMul(commitment, R(100)), 0)>>),
                      Text("risco.improve", <<>>),
                      Text("risco.impact", <<>>)),
               Pillar("crescimento", "Crescimento", growthScore, "TrendingUp", 15,
                      PillarPhrase(growthScore, 65,
                          "Voce evoluiu significativamente em relacao ao mes anterior.",
                          "Sua performance esta estavel.",
                          "Sua performance caiu este mes."),
                      Text("crescimento.how", <<improved>>),
                      Text("crescimento.improve", <<>>),
                      Text("crescimento.impact", <<>>)) >>
    IN  IF ~hasData
        THEN [value |-> NoDataReport,
              statsCalls |-> statsCallsOf(hasData, currentMonth, prevMonth, last3Months),
              facts |-> [currentMonth |-> currentMonth, prevMonth |-> prevMonth,
                         currentCount |-> Len(currentMonthTxs),
                         prevCount |-> Len(prevMonthTxs)]]
        ELSE [value |-> [overall |-> overall, status |-> getStatus(overall),
                         phrase |-> OverallPhrase(overall), hasData |-> hasData,
                         pillars |-> pillars],
              statsCalls |-> statsCallsOf(hasData, currentMonth, prevMonth, last3Months),
              facts |-> [currentMonth |-> currentMonth, prevMonth |-> prevMonth,
                         currentCount |-> Len(currentMonthTxs),
                         prevCount |-> Len(prevMonthTxs),
                         totalExpense |-> totalExpense, totalImpulse |-> totalImpulse,
                         impulsePercent |-> impulsePercent, impulseBase |-> impulseBase,
                         prevImpulse |-> prevImpulse,
                         prevTotalExpense |-> prevStats.totalExpense,
                         prevImpulsePercent |-> prevImpulsePercent,
                         daysInMonth |-> daysInMonth, daysElapsed |-> daysElapsed,
                         uniqueDays |-> uniqueDays,
                         consistencyBase |-> consistencyBase,
                         expenseDays |-> Cardinality(DOMAIN dailyAmounts),
                         avgDaily |-> avgDaily, hasSpike |-> hasSpike,
                         reserveBalance |-> reserveBalance,
                         last3Months |-> last3Months,
                         avgMonthlyExpense |-> avgMonthlyExpense,
                         reserveMonths |-> reserveMonths,
                         totalIncome |-> currentStats.totalIncome,
                         commitment |-> commitment,
                         prevTotalIncome |-> prevStats.totalIncome,
                         prevImpulseScore2 |-> prevImpulseScore2,
                         prevCommitment |-> prevCommitment,
                         prevRiskScore |-> prevRiskScore,
                         prevUniqueDays |-> prevUniqueDays,
                         comparisons |-> comparisons, improved |-> improved,
                         currentStats |-> currentStats, prevStats |-> prevStats]]

---------------------------------------------------------------------------
(* Inputs *)

Nov2025 == 12 * 2025 + 10
Dec2025 == 12 * 2025 + 11
Jan2026 == 12 * 2026 + 0
Feb2026 == 12 * 2026 + 1

Lazer == <<"L", "a", "z", "e", "r">>
Aluguel == <<"A", "l", "u", "g", "u", "e", "l">>

Outros == <<"O", "u", "t", "r", "o", "s">>

\* type and category as the category pickers offer them together
Kinds == {[type |-> "income", category |-> Outros],
          [type |-> "expense", category |-> Lazer],
          [type |-> "expense", category |-> Aluguel]}
Amounts == {1, 3}
Dates == {[ym |-> Jan2026, d |-> 1], [ym |-> Feb2026, d |-> 1],
          [ym |-> Feb2026, d |-> 2]}

\* rows of the transactions table: what fetchTransactions can find
Rows ==
    {[type |-> k.type, category |-> k.category, amount |-> a, date |-> dt] :
        k \in Kinds, a \in Amounts, dt \in Dates}

\* rows on the first day of four consecutive months, across the year's end
YearEndRows ==
    {[type |-> k.type, category |-> k.category, amount |-> 1,
      date |-> [ym |-> m, d |-> 1]] :
        k \in Kinds, m \in {Nov2025, Dec2025, Jan2026, Feb2026}}

\* rows of a month of daily expenses: small and large 'Lazer' expenses on
\* the first four days of February, one income on the first, and one
\* expense two months earlier
DayRows ==
    {[type |-> "expense", category |-> Lazer, amount |-> a,
      date |-> [ym |-> Feb2026, d |-> d]] : a \in {1, 10}, d \in 1..4}
    \cup {[type |-> "income", category |-> Outros, amount |-> 1,
           date |-> [ym |-> Feb2026, d |-> 1]],
          [type |-> "expense", category |-> Lazer, amount |-> 1,
           date |-> [ym |-> Dec2025, d |-> 1]]}

\* what the transaction form submits: Omit<Transaction, 'id' | 'createdAt'>
TxInputs == {r \in Rows : r.category # Aluguel /\ r.date.d = 1}

\* the instants at which the clock is read, in order, and the host offsets
Instants ==
    << [ym |-> Jan2026, d |-> 31, h |-> 23], [ym |-> Feb2026, d |-> 1, h |-> 1],
       [ym |-> Feb2026, d |-> 2, h |-> 12] >>
Offsets == {-3, 0, 2}

DateLe(a, b) == a.ym < b.ym \/ (a.ym = b.ym /\ a.d <= b.d)

\* .order('date', { ascending: false })
DateDescending(s) == \A i \in 1..(Len(s) - 1) : DateLe(s[i + 1].date, s[i].date)

WithId(input, id) ==
    [id |-> id, type |-> input.type, category |-> input.category,
     amount |-> input.amount, date |-> input.date]

Ids(txs) == {txs[i].id : i \in 1..Len(txs)}

NoMemo == [at |-> "none"]

---------------------------------------------------------------------------
(* Operations *)

\* one array built once at module level and handed out every time
Alloc_Shared(h) == 1

\* a fresh array: its address, given the number of arrays allocated before
Alloc(h) == h + 1

\* useSupabaseTransactions.addTransaction: insert, then prepend the new row.
\* setTransactions hands useMemo a new array, so the cached value is dropped.
addTransaction(input) ==
    /\ Len(transactions) < MaxTxs
    /\ LET id == CHOOSE i \in 1..MaxTxs : i \notin Ids(transactions)
       IN  transactions' = <<WithId(input, id)>> \o transactions
    /\ memo' = NoMemo
    /\ UNCHANGED <<now, tz, heap>>

\* useSupabaseTransactions.updateTransaction: { ...t, ...updates } for the row with that id
updateTransaction(id, updates) ==
    /\ id \in Ids(transactions)
    /\ transactions' = [i \in 1..Len(transactions) |->
                           IF transactions[i].id = id
                           THEN WithId(updates, id) ELSE transactions[i]]
    /\ memo' = NoMemo
    /\ UNCHANGED <<now, tz, heap>>

\* useSupabaseTransactions.deleteTransaction
deleteTransaction(id) ==
    /\ id \in Ids(transactions)
    /\ transactions' = SelectSeq(transactions, LAMBDA t : t.id # id)
    /\ memo' = NoMemo
    /\ UNCHANGED <<now, tz, heap>>

\* the wall clock moves on to the next instant
Tick ==
    /\ \E i \in 1..(Len(Instants) - 1) : now = Instants[i] /\ now' = Instants[i + 1]
    /\ UNCHANGED <<transactions, tz, memo, heap>>

\* useFinancialScore: a render of a component that uses the hook.  useMemo
\* runs the callback when it holds no value for the current dependencies
\* and returns the cached value otherwise.
useFinancialScore ==
    /\ IF memo = NoMemo
       THEN /\ heap < MaxAllocs
            /\ \E c \in {computeScore(transactions, now, tz)} :
                   memo' = [at |-> now, ref |-> Alloc(heap), value |-> c.value,
                            statsCalls |-> c.statsCalls, facts |-> c.facts]
            /\ heap' = heap + 1
       ELSE UNCHANGED <<memo, heap>>
    /\ UNCHANGED <<transactions, now, tz>>

---------------------------------------------------------------------------
(* Specifications *)

\* The hook's life: the list starts empty (useState([])) and changes through
\* the three mutations; renders and clock ticks interleave freely.
Init ==
    /\ transactions = <<>>
    /\ now = Instants[1]
    /\ tz \in Offsets
    /\ memo = NoMemo
    /\ heap = 0

Next ==
    \/ \E input \in TxInputs : addTransaction(input)
    \/ \E id \in 1..MaxTxs, updates \in TxInputs : updateTransaction(id, updates)
    \/ \E id \in 1..MaxTxs : deleteTransaction(id)
    \/ Tick
    \/ useFinancialScore

Spec == Init /\ [][Next]_vars

\* The score as a function of its inputs: the list is what fetchTransactions
\* loaded (ordered by date, newest first), the clock is at any of the
\* instants, and the hook renders.
InitScore ==
    /\ \E s \in UNION {[1..n -> Rows] : n \in 0..MaxLoaded} :
           /\ DateDescending(s)
           /\ transactions = [i \in 1..Len(s) |-> WithId(s[i], i)]
    /\ \E i \in 1..Len(Instants) : now = Instants[i]
    /\ tz \in Offsets
    /\ memo = NoMemo
    /\ heap = 0

NextScore == useFinancialScore

SpecScore == InitScore /\ [][NextScore]_vars

\* The same, over lists that reach back into the previous year.
InitYearEnd ==
    /\ \E s \in UNION {[1..n -> YearEndRows] : n \in 0..MaxLoaded} :
           /\ DateDescending(s)
           /\ transactions = [i \in 1..Len(s) |-> WithId(s[i], i)]
    /\ \E i \in 1..Len(Instants) : now = Instants[i]
    /\ tz \in Offsets
    /\ memo = NoMemo
    /\ heap = 0

NextYearEnd == useFinancialScore

SpecYearEnd == InitYearEnd /\ [][NextYearEnd]_vars

\* The same, over lists of a month of daily expenses.
InitDays ==
    /\ \E s \in UNION {[1..n -> DayRows] : n \in 0..MaxDays} :
           /\ DateDescending(s)
           /\ transactions = [i \in 1..Len(s) |-> WithId(s[i], i)]
    /\ \E i \in 1..Len(Instants) : now = Instants[i]
    /\ tz \in Offsets
    /\ memo = NoMemo
    /\ heap = 0

NextDays == useFinancialScore

SpecDays == InitDays /\ [][NextDays]_vars

---------------------------------------------------------------------------
(* Claims.  A report is memo.value; it was computed from `transactions`   *)
(* (every mutation drops the memo) at the instant memo.at on a host at    *)
(* offset tz.  The current month of a report is the calendar month of     *)
(* memo.at in UTC, the month key the hook selects by.                     *)

Computed == memo # NoMemo
Report == memo.value
TxIndex == 1..Len(transactions)
InCurrentMonth(i) == transactions[i].date.ym = memo.at.ym
NoCurrentMonthTx == \A i \in TxIndex : ~InCurrentMonth(i)
Blank == [tpl |-> "", args |-> <<>>]

\* C1: a list without any transaction dated in the current month gets the
\* degenerate report: hasData false, overall 0, status Critico, and five
\* pillars with score 0, status Critico and empty how/improve/impact.
C1_NoDataReport ==
    (Computed /\ NoCurrentMonthTx) =>
        /\ Report.hasData = FALSE
        /\ Report.overall = R(0)
        /\ Report.status = "Critico"
        /\ Len(Report.pillars) = 5
        /\ \A k \in 1..5 :
              /\ Report.pillars[k].score = R(0)
              /\ Report.pillars[k].status = "Critico"
              /\ Report.pillars[k].details.how = Blank
              /\ Report.pillars[k].details.improve = Blank
              /\ Report.pillars[k].details.impact = Blank

\* C1 happens: a list that has transactions, none of them in the current month
C1_Witness ==
    /\ Computed
    /\ Len(transactions) = 2
    /\ NoCurrentMonthTx
    /\ Report.hasData = FALSE

\* C2: hasData is true exactly when some transaction is dated in the current
\* month; transactions of other months never make it true.
C2_HasDataIff ==
    Computed => (Report.hasData <=> \E i \in TxIndex : InCurrentMonth(i))

\* C2 happens: the month before the current one has a transaction, the
\* current month has none, and hasData is false
C2_Witness ==
    /\ Computed
    /\ \E i \in TxIndex : transactions[i].date.ym = memo.at.ym - 1
    /\ NoCurrentMonthTx
    /\ ~Report.hasData

Weights == <<25, 20, 20, 20, 15>>

RECURSIVE WeightedSum(_, _)
WeightedSum(pillars, k) ==
    IF k = 0 THEN R(0)
    ELSE RAdd(WeightedSum(pillars, k - 1), RMul(pillars[k].score, R(Weights[k])))

\* the integer nearest to x / 100, half-way cases going up
RoundedHundredth(x) == (2 * x.n + 100 * x.d) \div (200 * x.d)

\* C3: overall is round((25*impulse + 20*consistency + 20*reserve + 20*risk
\* + 15*growth) / 100) over the scores the report carries, and the pillars
\* carry the weights 25, 20, 20, 20, 15, which add up to 100.
C3_OverallIsWeightedSum ==
    Computed =>
        /\ \A k \in 1..5 : Report.pillars[k].weight = Weights[k]
        /\ Weights[1] + Weights[2] + Weights[3] + Weights[4] + Weights[5] = 100
        /\ Report.overall = R(RoundedHundredth(WeightedSum(Report.pillars, 5)))

\* C3 happens: a has-data report whose weighted sum is not a whole number,
\* so that rounding acts
C3_Witness ==
    /\ Computed
    /\ Report.hasData
    /\ ~IsInt(RDiv(WeightedSum(Report.pillars, 5), R(100)))

InRange(x) == RGe(x, R(0)) /\ RGe(R(100), x)

\* C4: each of the five pillar scores and the overall score is an integer
\* in 0..100.
C4_ScoresAreIntegers ==
    Computed =>
        /\ IsInt(Report.overall) /\ InRange(Report.overall)
        /\ \A k \in 1..5 :
              IsInt(Report.pillars[k].score) /\ InRange(Report.pillars[k].score)

Band(score) ==
    IF score.n >= 80 * score.d THEN "Excelente"
    ELSE IF score.n >= 60 * score.d THEN "Saudavel"
    ELSE IF score.n >= 40 * score.d THEN "Atencao"
    ELSE "Critico"

PhraseBand(overall) ==
    IF overall.n >= 80 * overall.d
    THEN "Sua saude financeira esta excelente! Continue assim."
    ELSE IF overall.n >= 60 * overall.d
    THEN "Voce esta no caminho certo. Pequenos ajustes farao grande diferenca."
    ELSE IF overall.n >= 40 * overall.d
    THEN "Atencao necessaria. Revise seus habitos financeiros."
    ELSE "Situacao critica. Agir agora pode mudar seu cenario rapidamente."

StatusesBanded ==
    /\ Report.status = Band(Report.overall)
    /\ \A k \in 1..5 : Report.pillars[k].status = Band(Report.pillars[k].score)

\* C5 as stated: in every report every status is the banding of its score
\* (>= 80 Excelente, >= 60 Saudavel, >= 40 Atencao, else Critico) and the
\* overall phrase is the one the same breakpoints select.
C5_Original ==
    Computed => (StatusesBanded /\ Report.phrase = PhraseBand(Report.overall))

\* C5 amended: in every report every status is the banding of its score; in
\* a has-data report the overall phrase is the one the breakpoints select,
\* and the no-data report carries its own phrase, the prompt to register
\* transactions.
C5_StatusBanding ==
    Computed =>
        /\ StatusesBanded
        /\ Report.hasData => Report.phrase = PhraseBand(Report.overall)
        /\ ~Report.hasData =>
              Report.phrase = "Registre suas transacoes para desbloquear seu score completo."

\* C5 happens: a has-data report with a pillar exactly on a breakpoint
C5_Witness ==
    /\ Computed
    /\ Report.hasData
    /\ \E k \in 1..5 : Report.pillars[k].score \in {R(40), R(60), R(80)}

\* C7: computing the score leaves the transaction list as it was, element by
\* element, and the pillar array of the new report is one that no earlier
\* report holds (addresses 1..heap are the arrays handed out so far).
C7_FrameAndFresh ==
    [][(memo' # memo /\ memo' # NoMemo) =>
          /\ transactions' = transactions
          /\ memo'.ref \notin 1..heap]_vars

\* C7 happens: a has-data report computed after an earlier computation
C7_Witness ==
    /\ Computed
    /\ Report.hasData
    /\ heap >= 2
    /\ memo.ref = heap

Facts == memo.facts

SavingsRateGuarded(month) ==
    LET st == getMonthlyStats(transactions, month)
    IN  /\ IsFinite(st.savingsRate)
        /\ st.totalIncome = 0 => st.savingsRate = R(0)

\* C8: every division of a has-data computation has a non-zero denominator
\* or is replaced by its fallback (impulse percents 0, mean daily expense 0,
\* reserve months 0, commitments 1, savings rate 0), so every number of the
\* report is finite.
C8_DivisionsGuarded ==
    (Computed /\ Report.hasData) =>
        /\ IsFinite(Facts.impulsePercent)
        /\ Facts.totalExpense = 0 => Facts.impulsePercent = R(0)
        /\ IsFinite(Facts.prevImpulsePercent)
        /\ Facts.prevTotalExpense = 0 => Facts.prevImpulsePercent = R(0)
        /\ Facts.daysElapsed >= 1
        /\ IsFinite(Facts.consistencyBase)
        /\ IsFinite(Facts.avgDaily)
        /\ Facts.expenseDays = 0 => Facts.avgDaily = R(0)
        /\ IsFinite(Facts.avgMonthlyExpense)
        /\ IsFinite(Facts.reserveMonths)
        /\ Facts.avgMonthlyExpense = R(0) => Facts.reserveMonths = R(0)
        /\ IsFinite(Facts.commitment)
        /\ Facts.totalIncome = 0 => Facts.commitment = R(1)
        /\ IsFinite(Facts.prevCommitment)
        /\ Facts.prevTotalIncome = 0 => Facts.prevCommitment = R(1)
        /\ \A k \in 1..Len(memo.statsCalls) : SavingsRateGuarded(memo.statsCalls[k])
        /\ IsFinite(Report.overall)
        /\ \A k \in 1..5 : IsFinite(Report.pillars[k].score)

\* C8 happens: a month with income only, nothing in the month before: every
\* guarded division takes its fallback
C8_Witness ==
    /\ Computed
    /\ Report.hasData
    /\ Facts.totalExpense = 0
    /\ Facts.prevTotalExpense = 0
    /\ Facts.prevTotalIncome = 0
    /\ Facts.avgMonthlyExpense = R(0)

RECURSIVE AmountOver(_)
AmountOver(S) ==
    IF S = {} THEN 0
    ELSE LET i == CHOOSE j \in S : TRUE
         IN  transactions[i].amount + AmountOver(S \ {i})

ExpensesOf(ym) ==
    {i \in TxIndex : transactions[i].date.ym = ym /\ transactions[i].type = "expense"}
ImpulseExpensesOf(ym) ==
    {i \in ExpensesOf(ym) : isImpulseCategory(transactions[i].category)}

\* impulse expense total over total expense of a month, 0 without expenses
ImpulseShare(ym) ==
    IF AmountOver(ExpensesOf(ym)) = 0 THEN R(0)
    ELSE Rat(AmountOver(ImpulseExpensesOf(ym)), AmountOver(ExpensesOf(ym)))

\* the banding of a share i/t, compared by cross-multiplication
BandOfShare(x) ==
    IF 10 * x.n > 4 * x.d THEN 20
    ELSE IF 10 * x.n > 3 * x.d THEN 40
    ELSE IF 10 * x.n > 2 * x.d THEN 60
    ELSE IF 10 * x.n > 1 * x.d THEN 80
    ELSE 100

\* C9: before the bonus the Impulse score is 20 / 40 / 60 / 80 / 100 for an
\* impulse percent > 0.4 / > 0.3 / > 0.2 / > 0.1 / otherwise, the percent
\* being impulse expense over total expense of the current month and 0
\* without expenses; a percent on a breakpoint gets the higher score.
C9_ImpulseBands ==
    (Computed /\ Report.hasData) =>
        /\ Facts.impulsePercent = ImpulseShare(memo.at.ym)
        /\ Facts.impulseBase = R(BandOfShare(ImpulseShare(memo.at.ym)))

\* C9 happens: the impulse percent is exactly 0.4 and the base score is 40
C9_Witness ==
    /\ Computed
    /\ Report.hasData
    /\ ImpulseShare(memo.at.ym) = Rat(4, 10)
    /\ Facts.impulseBase = R(40)

\* C10: the reported Impulse score is min(100, base + 5) when the current
\* month's impulse percent is strictly below that of the previous calendar
\* month, and the base score otherwise.
C10_ImpulseBonus ==
    (Computed /\ Report.hasData) =>
        LET cur == ImpulseShare(memo.at.ym)
            prev == ImpulseShare(memo.at.ym - 1)
            base == BandOfShare(cur)
        IN  Report.pillars[1].score =
                IF cur.n * prev.d < prev.n * cur.d
                THEN R(IF base + 5 > 100 THEN 100 ELSE base + 5)
                ELSE R(base)

\* the percents 0, 0.05, 0.10, ..., 1
Percents == {Rat(n, 20) : n \in 0..20}
Breakpoints == {Rat(k, 10) : k \in 1..4}
BreakpointIn(lo, hi) == \E b \in Breakpoints : RGe(b, lo) /\ RLt(b, hi)

\* C11: with the previous month's impulse percent held fixed, the Impulse
\* score (bonus included) never rises as the current percent rises, and it
\* falls strictly when a breakpoint 0.1, 0.2, 0.3, 0.4 lies in [p1, p2):
\* the reported score at the report's percent is compared with the score at
\* every other percent of the grid, below and above.
C11_ImpulseMonotone ==
    (Computed /\ Report.hasData) =>
        \A p2 \in Percents :
            LET p1 == Facts.impulsePercent
                s1 == Report.pillars[1].score
                s2 == ImpulseScore(p2, Facts.prevImpulsePercent)
            IN  /\ RGe(p2, p1) => RGe(s1, s2)
                /\ (RGe(p2, p1) /\ BreakpointIn(p1, p2)) => RGt(s1, s2)
                /\ RGe(p1, p2) => RGe(s2, s1)
                /\ (RGe(p1, p2) /\ BreakpointIn(p2, p1)) => RGt(s2, s1)

\* C11 happens: a report at percent 0.25 that earned the bonus (65), with
\* the breakpoint 0.3 between it and higher percents of the grid
C11_Witness ==
    /\ Computed
    /\ Report.hasData
    /\ Facts.impulsePercent = Rat(1, 4)
    /\ Report.pillars[1].score = R(65)
    /\ \E p2 \in Percents : RGt(p2, Facts.impulsePercent)
                               /\ BreakpointIn(Facts.impulsePercent, p2)

\* C12: when the current month has an expense and every expense of it is in
\* an impulse category (impulse percent 1.0), the reported Impulse score is
\* exactly 20: no previous month can lie above 1.0 and earn the bonus.
C12_AllImpulseIs20 ==
    (Computed /\ ExpensesOf(memo.at.ym) # {}
              /\ ImpulseExpensesOf(memo.at.ym) = ExpensesOf(memo.at.ym)) =>
        /\ Report.hasData
        /\ Report.pillars[1].score = R(20)

\* C12 happens: all of this month's expenses are impulse ones and the month
\* the bonus compares with was all impulse too
C12_Witness ==
    /\ Computed
    /\ ExpensesOf(memo.at.ym) # {}
    /\ ImpulseExpensesOf(memo.at.ym) = ExpensesOf(memo.at.ym)
    /\ Facts.prevImpulsePercent = R(1)
    /\ Report.pillars[1].score = R(20)

IncomesOf(ym) ==
    {i \in TxIndex : transactions[i].date.ym = ym /\ transactions[i].type = "income"}

\* expense over income of a month, 1 when the month has no income
CommitmentOf(ym) ==
    IF AmountOver(IncomesOf(ym)) = 0 THEN R(1)
    ELSE Rat(AmountOver(ExpensesOf(ym)), AmountOver(IncomesOf(ym)))

\* the banding of a commitment e/i, compared by cross-multiplication
BandOfCommitment(x) ==
    IF 10 * x.n > 10 * x.d THEN 20
    ELSE IF 10 * x.n > 9 * x.d THEN 40
    ELSE IF 10 * x.n > 7 * x.d THEN 60
    ELSE IF 10 * x.n > 5 * x.d THEN 80
    ELSE 100

\* C13: the Risk score is 20 / 40 / 60 / 80 / 100 for a commitment > 1.0 /
\* > 0.9 / > 0.7 / > 0.5 / otherwise, the commitment being the current
\* month's total expense over its total income, and 1.0 without income.
C13_RiskBands ==
    (Computed /\ Report.hasData) =>
        /\ Facts.commitment = CommitmentOf(memo.at.ym)
        /\ Report.pillars[4].score = R(BandOfCommitment(CommitmentOf(memo.at.ym)))

\* C13 happens: income 4 and expense 3 in the month, commitment 0.75, score 60
C13_Witness ==
    /\ Computed
    /\ Report.hasData
    /\ AmountOver(IncomesOf(memo.at.ym)) = 4
    /\ AmountOver(ExpensesOf(memo.at.ym)) = 3
    /\ Report.pillars[4].score = R(60)

\* C14: when the current month's total expense equals its total income and
\* the income is positive (commitment exactly 1.0), the Risk score is 20.
C14_FullCommitmentIs20 ==
    (Computed /\ AmountOver(IncomesOf(memo.at.ym)) > 0
              /\ AmountOver(ExpensesOf(memo.at.ym)) = AmountOver(IncomesOf(memo.at.ym))) =>
        Report.pillars[4].score = R(20)

AllIncomes == {i \in TxIndex : transactions[i].type = "income"}
AllExpenses == {i \in TxIndex : transactions[i].type = "expense"}

\* all-time income minus all-time expense
ReserveBalanceOf == AmountOver(AllIncomes) - AmountOver(AllExpenses)

\* the expense total of a month and the two months before it
WindowExpenseOf(ym) ==
    AmountOver(ExpensesOf(ym)) + AmountOver(ExpensesOf(ym - 1))
        + AmountOver(ExpensesOf(ym - 2))

\* the banding of reserveMonths = b / (w / 3), by cross-multiplication;
\* reserveMonths is 0 when the window has no expense
BandOfReserve(b, w) ==
    IF w = 0 THEN 20
    ELSE IF 6 * b < w THEN 20
    ELSE IF 3 * b < w THEN 40
    ELSE IF 3 * b < 2 * w THEN 70
    ELSE IF b < w THEN 90
    ELSE 100

\* C15: the Reserve score is 20 / 40 / 70 / 90 / 100 for reserveMonths
\* < 0.5 / < 1 / < 2 / < 3 / otherwise, reserveMonths being the all-time
\* balance over a third of the expense of the current month and the two
\* months before it, and 0 when that expense is 0; a balance of 0 scores 20.
C15_ReserveBands ==
    (Computed /\ Report.hasData) =>
        /\ Report.pillars[3].score =
               R(BandOfReserve(ReserveBalanceOf, WindowExpenseOf(memo.at.ym)))
        /\ ReserveBalanceOf = 0 => Report.pillars[3].score = R(20)

TxDaysOf(ym) == {transactions[i].date.d : i \in {j \in TxIndex : transactions[j].date.ym = ym}}
ExpenseDaysOf(ym) == {transactions[i].date.d : i \in ExpensesOf(ym)}
DayExpenseOf(ym, d) == AmountOver({i \in ExpensesOf(ym) : transactions[i].date.d = d})

\* some day's expense total exceeds 3 times the mean per-day expense total
SpikeOf(ym) ==
    \E d \in ExpenseDaysOf(ym) :
        DayExpenseOf(ym, d) * Cardinality(ExpenseDaysOf(ym))
            > 3 * AmountOver(ExpensesOf(ym))

\* clamp(100 * u / e, 0, 100), less 10 and not below 0 on a spike
ConsistencyOf(u, e, spike) ==
    LET base == IF u >= e THEN R(100) ELSE Rat(100 * u, e)
    IN  IF ~spike THEN base
        ELSE IF RLt(base, R(10)) THEN R(0) ELSE RSub(base, R(10))

\* today's day-of-month, on the calendar the current month is taken from
\* (UTC) or on the host's calendar
TodayReadings == {memo.at.d, LocalFields(memo.at, tz).d}

\* C16: the Consistency score is clamp(100 * uniqueDays / daysElapsed, 0,
\* 100), less 10 (not below 0) on a spike; uniqueDays counts the distinct
\* dates of current-month transactions, daysElapsed is min(today's
\* day-of-month, days in the current month); hence 100 when uniqueDays
\* reaches or exceeds daysElapsed and there is no spike.
C16_Consistency ==
    (Computed /\ Report.hasData) =>
        \E today \in TodayReadings :
            LET dim == DaysIn(memo.at.ym)
                daysElapsed == IF today < dim THEN today ELSE dim
                uniqueDays == Cardinality(TxDaysOf(memo.at.ym))
            IN  /\ Report.pillars[2].score =
                       ConsistencyOf(uniqueDays, daysElapsed, SpikeOf(memo.at.ym))
                /\ (uniqueDays >= daysElapsed /\ ~SpikeOf(memo.at.ym)) =>
                       Report.pillars[2].score = R(100)

TxsOf(ym) == {i \in TxIndex : transactions[i].date.ym = ym}

\* the improved count as the report states it
ReportedImproved == Report.pillars[5].details.how.args[1]

BandOfImproved(n) == IF n >= 3 THEN 90 ELSE IF n >= 1 THEN 75 ELSE 65

\* C17: when the month before the current one has a transaction, the Growth
\* score is 90 / 75 / 65 for an improved count >= 3 / 1 or 2 / 0; the value
\* 40 is never produced: in every has-data report Growth is 65, 75 or 90.
C17_GrowthBands ==
    (Computed /\ Report.hasData) =>
        /\ Report.pillars[5].score \in {R(65), R(75), R(90)}
        /\ TxsOf(memo.at.ym - 1) # {} =>
               Report.pillars[5].score = R(BandOfImproved(ReportedImproved))

\* the four comparisons of Growth against the month prev, from the scores
\* the report carries and the previous month's transactions
ImprovedOf(prev) ==
    LET c1 == RGt(Report.pillars[1].score, R(BandOfShare(ImpulseShare(prev))))
        c2 == Cardinality(TxDaysOf(memo.at.ym)) * 28
                  > Cardinality(TxDaysOf(prev)) * Facts.daysElapsed
        c3 == RGe(Report.pillars[3].score, R(70))
        c4 == RGt(Report.pillars[4].score, R(BandOfCommitment(CommitmentOf(prev))))
    IN  (IF c1 THEN 1 ELSE 0) + (IF c2 THEN 1 ELSE 0)
            + (IF c3 THEN 1 ELSE 0) + (IF c4 THEN 1 ELSE 0)

\* C18: the improved count is the number of these that hold: the Impulse
\* score is above the previous month's impulse banding (no bonus); unique
\* days over days elapsed is above the previous month's unique days over
\* 28; the Reserve score is >= 70; the Risk score is above the previous
\* month's risk banding (commitment 1.0 without income).
C18_ImprovedCount ==
    (Computed /\ Report.hasData) => ReportedImproved = ImprovedOf(memo.at.ym - 1)

\* C19: when the current month has a transaction and the month before it
\* has none, the Growth score is exactly 75.
C19_FirstMonthGrace ==
    (Computed /\ TxsOf(memo.at.ym) # {} /\ TxsOf(memo.at.ym - 1) = {}) =>
        Report.pillars[5].score = R(75)

\* the instants of the current wall-clock month, on the UTC calendar or on
\* the host's
ThisMonthInstants ==
    {i \in 1..Len(Instants) :
        \/ Instants[i].ym = now.ym
        \/ LocalFields(Instants[i], tz).ym = LocalFields(now, tz).ym}

\* C20: whatever the list changes, month rollovers and reads before it, a
\* read returns the report a fresh computation over the current list in
\* the current wall-clock month gives (a read returns memo.value whenever
\* a value is cached).
C20_MemoFresh ==
    Computed =>
        \E i \in ThisMonthInstants :
            Report = computeScore(transactions, Instants[i], tz).value

\* C21: at every instant and host offset the previous-month key is the
\* month before the current-month key (December of the year before for
\* January), and the Reserve window's keys are current - 2, current - 1 and
\* the current-month key, in that order.
C21_MonthKeys ==
    Computed =>
        /\ Facts.currentMonth = memo.at.ym
        /\ Facts.prevMonth = Facts.currentMonth - 1
        /\ Report.hasData =>
               Facts.last3Months = << Facts.currentMonth - 2, Facts.currentMonth - 1,
                                      Facts.currentMonth >>

\* the aggregate of a month from its transactions, the savings rate being
\* balance over income times `scale`
AggregateOf(ym, scale) ==
    LET inc == AmountOver(IncomesOf(ym))
        exp == AmountOver(ExpensesOf(ym))
    IN  [totalIncome |-> inc, totalExpense |-> exp, balance |-> inc - exp,
         savingsRate |-> IF inc > 0 THEN Rat(scale * (inc - exp), inc) ELSE R(0)]

ZeroAggregate ==
    [totalIncome |-> 0, totalExpense |-> 0, balance |-> 0, savingsRate |-> R(0)]

\* the aggregates the computation got for its current and previous month
\* keys are those of the months' transactions, an empty month gives the
\* all-zero aggregate, and the window's average is over the same totals
StatsAgree(scale) ==
    /\ Facts.currentStats = AggregateOf(Facts.currentMonth, scale)
    /\ Facts.prevStats = AggregateOf(Facts.prevMonth, scale)
    /\ TxsOf(Facts.prevMonth) = {} => Facts.prevStats = ZeroAggregate
    /\ Facts.currentStats.totalIncome + Facts.currentStats.totalExpense
           = AmountOver(TxsOf(Facts.currentMonth))
    /\ Facts.avgMonthlyExpense =
           Rat(AmountOver(ExpensesOf(Facts.last3Months[1]))
                   + AmountOver(ExpensesOf(Facts.last3Months[2]))
                   + AmountOver(ExpensesOf(Facts.last3Months[3])), 3)

\* C22 as stated: getMonthlyStats gives the month's income and expense
\* sums, balance = income - expense and savingsRate = balance / income
\* (0 without income); an empty month gives all zeros; the totals agree
\* with the hook's own month filter.
C22_Original == (Computed /\ Report.hasData) => StatsAgree(1)

\* C22 amended: the same, with savingsRate = (balance / income) * 100, a
\* percentage.
C22_MonthlyStats == (Computed /\ Report.hasData) => StatsAgree(100)

\* C22 happens: a month with income 2 and expense 1 (savings rate 50), the
\* month before it empty
C22_Witness ==
    /\ Computed
    /\ Report.hasData
    /\ Facts.currentStats.totalIncome = 2
    /\ Facts.currentStats.totalExpense = 1
    /\ Facts.currentStats.savingsRate = R(50)
    /\ TxsOf(Facts.prevMonth) = {}

\* what a computation that stops at the no-data test has evaluated
NoDataFacts == {"currentMonth", "prevMonth", "currentCount", "prevCount"}

\* C23: when the current month has no transaction the computation returns
\* the no-data report without a single getMonthlyStats call and without
\* evaluating a pillar formula; no other case skips the scoring: with a
\* current-month transaction the five aggregates are fetched and every
\* pillar is scored.
C23_NoDataFirst ==
    Computed =>
        /\ NoCurrentMonthTx =>
              /\ memo.statsCalls = <<>>
              /\ DOMAIN Facts = NoDataFacts
              /\ Report = NoDataReport
        /\ ~NoCurrentMonthTx =>
              /\ Len(memo.statsCalls) = 5
              /\ memo.statsCalls[1] = Facts.currentMonth
              /\ NoDataFacts \subseteq DOMAIN Facts
              /\ "improved" \in DOMAIN Facts
              /\ Report.hasData

\* C23 happens: a list with a transaction, none in the current month, and
\* a report computed from it without any aggregate
C23_Witness ==
    /\ Computed
    /\ Len(transactions) >= 1
    /\ NoCurrentMonthTx
    /\ memo.statsCalls = <<>>
    /\ ~Report.hasData

\* two characters that are the same letter, in either case
SameLetter(a, b) ==
    a = b \/ \E i \in 1..26 : {a, b} = {UpperChars[i], LowerChars[i]}

\* the name contains one of the impulse keywords, letter case ignored
ContainsKeyword(name) ==
    \E n \in 1..Len(IMPULSE_KEYWORDS) :
        LET k == IMPULSE_KEYWORDS[n]
        IN  \E i \in 1..Len(name) :
                /\ i + Len(k) - 1 <= Len(name)
                /\ \A j \in 1..Len(k) : SameLetter(name[i + j - 1], k[j])

ImpulseTotalOf(ym) ==
    AmountOver({i \in TxsOf(ym) : /\ transactions[i].type = "expense"
                                  /\ ContainsKeyword(transactions[i].category)})

HowArgs(k) == Report.pillars[k].details.how.args

\* the expense of the three months the Reserve window names
WindowExpense ==
    AmountOver(ExpensesOf(Facts.last3Months[1]))
        + AmountOver(ExpensesOf(Facts.last3Months[2]))
        + AmountOver(ExpensesOf(Facts.last3Months[3]))

\* reserve months: the balance over a third of the window's expense
ReserveMonthsOf ==
    IF WindowExpense = 0 THEN R(0) ELSE Rat(3 * ReserveBalanceOf, WindowExpense)

\* the texts of the first four pillars carry the values their scores come
\* from: the impulse percent, unique days, days elapsed and their
\* percentage, the reserve months, the commitment percent
TextsCarryInputs ==
    LET p == ImpulseShare(Facts.currentMonth)
        u == Cardinality(TxDaysOf(Facts.currentMonth))
        de == Facts.daysElapsed
        c == CommitmentOf(Facts.currentMonth)
    IN  /\ HowArgs(1) = <<ToFixed(RMul(p, R(100)), 0)>>
        /\ Facts.impulseBase = R(BandOfShare(p))
        /\ Report.pillars[1].score \in {Facts.impulseBase,
                                        RMin(RAdd(Facts.impulseBase, R(5)), R(100))}
        /\ HowArgs(2) = <<u, de, ToFixed(Rat(100 * u, de), 0)>>
        /\ Report.pillars[2].score = ConsistencyOf(u, de, Facts.hasSpike)
        /\ HowArgs(3) = <<ToFixed(ReserveMonthsOf, 1)>>
        /\ Report.pillars[3].score = R(BandOfReserve(ReserveBalanceOf, WindowExpense))
        /\ HowArgs(4) = <<ToFixed(RMul(c, R(100)), 0)>>
        /\ Report.pillars[4].score = R(BandOfCommitment(c))
        /\ HowArgs(5) = <<Facts.improved>>

\* C25 as stated: in a has-data report the texts carry the values the
\* scores come from, and the improved count in the Growth text gives the
\* Growth score by the rule >= 3: 90, 1 or 2: 75, 0: 65.
C25_Original ==
    (Computed /\ Report.hasData) =>
        /\ TextsCarryInputs
        /\ Report.pillars[5].score = R(BandOfImproved(HowArgs(5)[1]))

\* C25 amended: the same, the rule for Growth applying when the hook found
\* a transaction under its previous-month key; when it found none the
\* Growth score is 75 whatever count the text states.
C25_TextsMatch ==
    (Computed /\ Report.hasData) =>
        /\ TextsCarryInputs
        /\ Facts.prevCount > 0 =>
               Report.pillars[5].score = R(BandOfImproved(HowArgs(5)[1]))
        /\ Facts.prevCount = 0 => Report.pillars[5].score = R(75)

\* C25 happens: the Growth text states 3 improved pillars and the score is
\* 75, the previous month being empty
C25_Witness ==
    /\ Computed
    /\ Report.hasData
    /\ Facts.prevCount = 0
    /\ HowArgs(5) = <<3>>
    /\ Report.pillars[5].score = R(75)

\* C26: in a has-data report overall is at least 23 and at most 100 and the
\* Consistency score is strictly positive; overall is 0 exactly in the
\* no-data report.
C26_OverallFloor ==
    Computed =>
        /\ Report.hasData =>
              /\ RGe(Report.overall, R(23))
              /\ RGe(R(100), Report.overall)
              /\ RGt(Report.pillars[2].score, R(0))
        /\ Report.overall = R(0) <=> ~Report.hasData

\* C26 happens: the floor is met, with the pillars at 20, 100/31, 20, 20
\* and 65
C26_Witness ==
    /\ Computed
    /\ Report.hasData
    /\ Report.overall = R(23)
    /\ Report.pillars[1].score = R(20)
    /\ Report.pillars[2].score = Rat(100, 31)
    /\ Report.pillars[3].score = R(20)
    /\ Report.pillars[4].score = R(20)
    /\ Report.pillars[5].score = R(65)

\* C27: with expenses on 1, 2 or 3 distinct dates of the current month no
\* day's total exceeds 3 times the mean per-day total, the mean being taken
\* over the days that have expenses, so no penalty applies and the
\* Consistency score is the plain clamp(100 * uniqueDays / daysElapsed).
C27_SpikeNeedsFourDays ==
    (Computed /\ Report.hasData) =>
        LET days == ExpenseDaysOf(Facts.currentMonth)
        IN  /\ days # {} =>
                  Facts.avgDaily = Rat(AmountOver(ExpensesOf(Facts.currentMonth)),
                                       Cardinality(days))
            /\ Cardinality(days) <= 3 =>
                  /\ ~Facts.hasSpike
                  /\ ~SpikeOf(Facts.currentMonth)
                  /\ Report.pillars[2].score =
                         ConsistencyOf(Cardinality(TxDaysOf(Facts.currentMonth)),
                                       Facts.daysElapsed, FALSE)

\* C27 happens: expenses on three dates, 10 on one and 1 on each of the
\* others, and no penalty
C27_Witness ==
    /\ Computed
    /\ Report.hasData
    /\ Cardinality(ExpenseDaysOf(Facts.currentMonth)) = 3
    /\ AmountOver(ExpensesOf(Facts.currentMonth)) = 12
    /\ ~Facts.hasSpike
    /\ Report.pillars[2].score = R(100)

\* C28: a current month with transactions and no income has Risk score 40
\* whatever its expense, and the Risk score 20 occurs only with a positive
\* income that the expense strictly exceeds.
C28_NoIncomeIs40 ==
    (Computed /\ Report.hasData) =>
        LET inc == AmountOver(IncomesOf(Facts.currentMonth))
            exp == AmountOver(ExpensesOf(Facts.currentMonth))
        IN  /\ inc = 0 => Report.pillars[4].score = R(40)
            /\ Report.pillars[4].score = R(20) => (inc > 0 /\ exp > inc)

\* C28 happens: a month with expenses of 11 and no income, Risk score 40
C28_Witness ==
    /\ Computed
    /\ Report.hasData
    /\ IncomesOf(Facts.currentMonth) = {}
    /\ AmountOver(ExpensesOf(Facts.currentMonth)) = 11
    /\ Report.pillars[4].score = R(40)

\* C29: when the current month and the two months before it have no
\* expense the Reserve score is 20 however large the all-time balance, and
\* a negative balance gives Reserve score 20 too.
C29_ReserveFloor ==
    (Computed /\ Report.hasData) =>
        /\ WindowExpenseOf(memo.at.ym) = 0 => Report.pillars[3].score = R(20)
        /\ ReserveBalanceOf < 0 => Report.pillars[3].score = R(20)

\* C30: when the current month's impulse percent is strictly below the
\* previous month's (the bonus is awarded) and above 0.1, Growth's impulse
\* comparison counts as improved, also when both months are in the same
\* band; when the previous month has no expense the bonus is not awarded.
C30_BonusCountsAsImproved ==
    (Computed /\ Report.hasData) =>
        LET cur == ImpulseShare(memo.at.ym)
            prev == ImpulseShare(memo.at.ym - 1)
        IN  /\ (RLt(cur, prev) /\ RGt(cur, Rat(1, 10))) =>
                   /\ Report.pillars[1].score = R(BandOfShare(cur) + 5)
                   /\ Facts.comparisons[1]
            /\ ExpensesOf(memo.at.ym - 1) = {} =>
                   Report.pillars[1].score = R(BandOfShare(cur))

====
